---- MODULE Spec2Model ----
(***************************************************************************)
(* Model of scar's dependency-graph engine (src/src/dependency_analyzer.rs) *)
(* fed by the File records the scanner produces (src/src/file.rs,           *)
(* src/src/project_scanner.rs).                                             *)
(*                                                                          *)
(* A Rust &str is modelled as a sequence of one-character strings, so that  *)
(* extract_filename_from_path really splits on '/'.                         *)
(***************************************************************************)
EXTENDS FiniteSets, Integers, Sequences, TLC

VARIABLES
    files,              \* Vec<File> handed to DependencyAnalyzer::make
    pc,                 \* position of the program
    debug,              \* DependencyAnalyzer.debug
    modules_inclusion,  \* DependencyAnalyzer.modules_inclusion
    op,                 \* the ranking entry point last called
    included_files,     \* candidate list of the running get_sorted_impact_impl
    idx,                \* index of the candidate the impact loop is at
    visited,            \* dfs_tree: visited
    visit_order,        \* DFSTree.visit_order
    tree,               \* DFSTree.tree
    stack,              \* activation records of dfs_recursive
    dependencies,       \* get_sorted_impact_impl: dependencies
    result,             \* Vec<DependencyEntry> returned by the last entry point
    path_arg,           \* argument of extract_filename_from_path under test
    path_out,           \* results of applying it once, then to its own result
    printed,            \* lines print_tree wrote during the last impact ranking
    output_size,        \* Config.output_size of the use case
    topn,               \* the slice get_slice_up_to gave the use case
    output_data,        \* HashMap<String, usize> the use case returns
    workers             \* the locals of dfs_tree in each of the calls run side by side

vars == << files, pc, debug, modules_inclusion, op, included_files, idx,
           visited, visit_order, tree, stack, dependencies, result,
           path_arg, path_out, printed, output_size, topn, output_data,
           workers >>

dfsVars == << visited, visit_order, tree, stack >>
pathVars == << path_arg, path_out >>
useCaseVars == << output_size, topn, output_data >>

-----------------------------------------------------------------------------
(* Bounds *)

MaxFiles == 2       \* units in one scan
MaxRefs == 3        \* #include lines in one scan, all units together
MaxLen == 3         \* length of the strings given to extract_filename_from_path
MaxDepth == 5       \* nesting of dfs_recursive the call stack can hold
MaxNum == 2         \* largest Config::output_size a use case is given
MaxWorkers == 2     \* calls of dfs_tree run side by side

-----------------------------------------------------------------------------
(* Strings *)

Alphabet == {"a", "/", "\\"}

\* identities of scanned units: bare names and a path with a directory
UnitNames == { <<"a">>, <<"b">>, <<"s", "/", "b">> }

\* raw #include arguments
RefNames == { <<"a">>, <<"s", "/", "b">> }

RECURSIVE StringsUpTo(_)
StringsUpTo(n) ==
    IF n = 0 THEN { <<>> }
    ELSE LET shorter == StringsUpTo(n - 1)
         IN  shorter \cup { Append(s, c) : s \in shorter, c \in Alphabet }

RECURSIVE SeqsUpTo(_, _)
SeqsUpTo(S, n) ==
    IF n = 0 THEN { <<>> }
    ELSE LET shorter == SeqsUpTo(S, n - 1)
         IN  shorter \cup { Append(s, x) : s \in shorter, x \in S }

Range(s) == { s[i] : i \in 1..Len(s) }

\* all orders in which a hash container can enumerate the members of S
Orders(S) ==
    { s \in [1..Cardinality(S) -> S] : \A i, j \in 1..Cardinality(S) : s[i] = s[j] => i = j }

EmptyMap == [k \in {} |-> {}]

-----------------------------------------------------------------------------
(* extract_filename_from_path *)

RECURSIVE split(_, _)
split(path, sep) ==
    IF \A i \in 1..Len(path) : path[i] # sep
    THEN << path >>
    ELSE LET i == CHOOSE k \in 1..Len(path) :
                      /\ path[k] = sep
                      /\ \A j \in 1..(k - 1) : path[j] # sep
         IN  << SubSeq(path, 1, i - 1) >> \o split(SubSeq(path, i + 1, Len(path)), sep)

extract_first_token(path) ==
    LET tokens == split(path, "/")
    IN  IF Len(tokens) > 0 THEN tokens[1] ELSE path

extract_filename_from_path(path) ==
    LET tokens == split(path, "/")
    IN  IF Len(tokens) > 0 THEN tokens[Len(tokens)] ELSE path

-----------------------------------------------------------------------------
(* DependencyAnalyzer::make *)

File(name, used_modules) == [name |-> name, used_modules |-> used_modules]

\* lines 29-33: the canonical names of the references, deduplicated
file_dependencies(f) ==
    { extract_filename_from_path(f.used_modules[j]) : j \in 1..Len(f.used_modules) }

\* a slip that replaces the entry instead of keeping the one already there
register_file_overwrite(m, current_file_name) ==
    [k \in (DOMAIN m) \cup {current_file_name} |->
        IF k = current_file_name THEN {} ELSE m[k]]

\* a slip that leaves the unit's own name out of the map
register_file_skip(m, current_file_name) == m

\* lines 35-37: entry(current_file_name).or_insert(HashSet::new())
register_file(m, current_file_name) ==
    IF current_file_name \in DOMAIN m THEN m ELSE m @@ (current_file_name :> {})

\* a slip that inserts a fresh set whether or not the key is there
add_includer_replace(m, d, path) ==
    [k \in (DOMAIN m) \cup {d} |-> IF k = d THEN {path} ELSE m[k]]

\* lines 40-49: entry(d).and_modify(insert path).or_insert({path})
add_includer(m, d, path) ==
    IF d \in DOMAIN m
    THEN [m EXCEPT ![d] = @ \cup {path}]
    ELSE m @@ (d :> {path})

\* lines 39-50: for d in dependencies
RECURSIVE add_includers(_, _, _)
add_includers(m, deps, path) ==
    IF deps = {} THEN m
    ELSE LET d == CHOOSE x \in deps : TRUE
         IN  add_includers(add_includer(m, d, path), deps \ {d}, path)

\* lines 26-50: the body of the loop over the files
make_file(m, f) ==
    add_includers(register_file(m, extract_filename_from_path(f.name)),
                  file_dependencies(f), f.name)

\* lines 23-51: for f in files
RECURSIVE make_loop(_, _)
make_loop(m, fs) ==
    IF fs = <<>> THEN m
    ELSE make_loop(make_file(m, Head(fs)), Tail(fs))

make(fs) == make_loop(EmptyMap, fs)

-----------------------------------------------------------------------------
(* rankings *)

DependencyEntry(file_name, paths) ==
    [file_name |-> file_name, including_files_paths |-> paths]

\* the list left in the order it came in
sort_forgotten(seq, len) == seq

\* Vec::sort_by with the comparator b.len().cmp(a.len()): stable, decreasing
RECURSIVE sort_by_len_desc(_, _)
sort_by_len_desc(seq, len) ==
    IF seq = <<>> THEN <<>>
    ELSE LET sorted == sort_by_len_desc(SubSeq(seq, 1, Len(seq) - 1), len)
             x == seq[Len(seq)]
             n == Cardinality({ i \in 1..Len(sorted) : len[sorted[i]] >= len[x] })
         IN  SubSeq(sorted, 1, n) \o << x >> \o SubSeq(sorted, n + 1, Len(sorted))

get_sorted_inclusion_impl(m, included) ==
    LET len == [f \in DOMAIN m |-> Cardinality(m[f])]
        sorted == sort_by_len_desc(included, len)
    IN  [i \in 1..Len(sorted) |-> DependencyEntry(sorted[i], m[sorted[i]])]

file_names(fs) == { fs[i].name : i \in 1..Len(fs) }

\* a filter that compares canonical names instead of identities
filter_by_canonical_name(fs, included) ==
    LET canon == { extract_filename_from_path(n) : n \in file_names(fs) }
        keep(included_file) == included_file \in canon
    IN  SelectSeq(included, keep)

filter_outside_inclusions(fs, included) ==
    LET keep(included_file) == included_file \in file_names(fs)
    IN  SelectSeq(included, keep)

\* a lookup of the scanned unit by canonical name instead of identity
filtered_paths_by_canonical_name(fs, order, inc) ==
    { v \in Range(order) :
        v # inc /\ \E i \in 1..Len(fs) : extract_filename_from_path(fs[i].name) = v }

\* the start node left in the impacted-set
filtered_paths_with_start(fs, order, inc) ==
    { v \in Range(order) : \E i \in 1..Len(fs) : fs[i].name = v }

\* lines 155-164: the visit order without the start node, kept to scanned units
filtered_paths(fs, order, inc) ==
    { v \in Range(order) : v # inc /\ \E i \in 1..Len(fs) : fs[i].name = v }

sort_dependencies(deps) ==
    LET len == [e \in Range(deps) |-> Cardinality(e.including_files_paths)]
    IN  sort_by_len_desc(deps, len)

\* an edge that takes the place of the children recorded before
add_edge_replacing(t, parent, child) ==
    IF parent \in DOMAIN t
    THEN [t EXCEPT ![parent] = << child >>]
    ELSE t @@ (parent :> << child >>)

\* DFSTree::add_edge
add_edge(t, parent, child) ==
    IF parent \in DOMAIN t
    THEN [t EXCEPT ![parent] = Append(@, child)]
    ELSE t @@ (parent :> << child >>)

\* one line of print_tree: the indentation, the colour and the node
Line(level, node) == [indent |-> level, colour |-> level % 5, node |-> node]

\* DFSTree::print_tree: the node, then its children one level deeper
RECURSIVE print_tree(_, _, _)
RECURSIVE print_children(_, _, _)
print_tree(t, node, level) ==
    << Line(level, node) >>
        \o (IF node \in DOMAIN t THEN print_children(t, t[node], level + 1) ELSE <<>>)

\* DFSTree::print_tree: for child in children
print_children(t, children, level) ==
    IF children = <<>> THEN <<>>
    ELSE print_tree(t, Head(children), level) \o print_children(t, Tail(children), level)

\* an arm that prints the tree in debug mode and pushes the entry otherwise
ok_arm_prints_or_pushes(deps, fs, order, inc, dbg) ==
    IF dbg THEN deps
    ELSE Append(deps, DependencyEntry(inc, filtered_paths(fs, order, inc)))

\* lines 149-170: the entry the Ok(tree) arm pushes, in debug mode or not
ok_arm(deps, fs, order, inc, dbg) ==
    Append(deps, DependencyEntry(inc, filtered_paths(fs, order, inc)))

\* line 211: adj_list.get(current)
neighbors(m, current) == IF current \in DOMAIN m THEN m[current] ELSE {}

Frame(current, todo) == [current |-> current, todo |-> todo]

\* the keys handed out although there is none
no_keys_accepted(m) == FALSE

\* line 234: the assert of get_included_files fails
get_included_files_panics(m) == DOMAIN m = {}

\* line 188: the assert of dfs_tree fails
dfs_tree_panics(m) == DOMAIN m = {}

\* a start node found only when some unit includes it
starting_node_included(m, start_node) ==
    start_node \in DOMAIN m /\ m[start_node] # {}

\* line 190: self.modules_inclusion.contains_key(start_node)
starting_node_found(m, start_node) == start_node \in DOMAIN m

\* an error that ends the loop over the candidates
abort_after_error(i, n) == n + 1

\* line 171: the Err arm prints and the loop goes on with the next candidate
after_error(i, n) == i + 1

-----------------------------------------------------------------------------
(* The program *)

Init ==
    /\ files = <<>>
    /\ pc = "scan"
    /\ debug = FALSE
    /\ modules_inclusion = EmptyMap
    /\ op = "none"
    /\ included_files = <<>>
    /\ idx = 0
    /\ visited = {}
    /\ visit_order = <<>>
    /\ tree = EmptyMap
    /\ stack = <<>>
    /\ dependencies = <<>>
    /\ result = <<>>
    /\ path_arg = <<>>
    /\ path_out = <<>>
    /\ printed = <<>>
    /\ output_size = 0
    /\ topn = <<>>
    /\ output_data = EmptyMap
    /\ workers = <<>>

RECURSIVE TotalRefs(_)
TotalRefs(fs) ==
    IF fs = <<>> THEN 0 ELSE Len(Head(fs).used_modules) + TotalRefs(Tail(fs))

\* ProjectScanner::scan_files pushes one more File
ScanFile ==
    /\ pc = "scan"
    /\ Len(files) < MaxFiles
    /\ \E name \in UnitNames,
          used_modules \in SeqsUpTo(RefNames, MaxRefs - TotalRefs(files)) :
           files' = Append(files, File(name, used_modules))
    /\ UNCHANGED << pc, debug, modules_inclusion, op, included_files, idx,
                    dependencies, result >>
    /\ UNCHANGED dfsVars
    /\ UNCHANGED pathVars
    /\ UNCHANGED workers
    /\ UNCHANGED useCaseVars
    /\ UNCHANGED printed

\* DependencyAnalyzer::make
Make ==
    /\ pc = "scan"
    /\ \E d \in BOOLEAN : debug' = d
    /\ modules_inclusion' = make(files)
    /\ pc' = "ready"
    /\ UNCHANGED << files, op, included_files, idx, dependencies, result >>
    /\ UNCHANGED dfsVars
    /\ UNCHANGED pathVars
    /\ UNCHANGED workers
    /\ UNCHANGED useCaseVars
    /\ UNCHANGED printed

\* get_sorted_inclusion and get_sorted_inclusion_no_external
GetSortedInclusion(no_external) ==
    /\ pc = "ready"
    /\ op' = IF no_external THEN "inclusion_no_external" ELSE "inclusion"
    /\ IF get_included_files_panics(modules_inclusion)
       THEN /\ pc' = "panic"
            /\ result' = <<>>
       ELSE /\ pc' = "ready"
            /\ \E keys \in Orders(DOMAIN modules_inclusion) :
                   LET candidates == IF no_external
                                     THEN filter_outside_inclusions(files, keys)
                                     ELSE keys
                   IN  result' = get_sorted_inclusion_impl(modules_inclusion, candidates)
    /\ printed' = <<>>
    /\ UNCHANGED << files, debug, modules_inclusion, included_files, idx, dependencies >>
    /\ UNCHANGED dfsVars
    /\ UNCHANGED pathVars
    /\ UNCHANGED workers
    /\ UNCHANGED useCaseVars

\* get_sorted_impact and get_sorted_impact_no_external, up to the loop
GetSortedImpact(no_external) ==
    /\ pc = "ready"
    /\ op' = IF no_external THEN "impact_no_external" ELSE "impact"
    /\ result' = <<>>
    /\ dependencies' = <<>>
    /\ IF get_included_files_panics(modules_inclusion)
       THEN /\ pc' = "panic"
            /\ UNCHANGED << included_files, idx >>
       ELSE /\ pc' = "loop"
            /\ idx' = 1
            /\ \E keys \in Orders(DOMAIN modules_inclusion) :
                   included_files' = IF no_external
                                     THEN filter_outside_inclusions(files, keys)
                                     ELSE keys
    /\ printed' = <<>>
    /\ UNCHANGED << files, debug, modules_inclusion >>
    /\ UNCHANGED dfsVars
    /\ UNCHANGED pathVars
    /\ UNCHANGED workers
    /\ UNCHANGED useCaseVars

\* names a caller can put in a candidate list
CandidateNames == UnitNames

\* candidate lists: every list of distinct candidate names
CandidateLists == UNION { Orders(S) : S \in SUBSET CandidateNames }

\* get_sorted_impact_impl called with a candidate list of the caller's choice
GetSortedImpactImpl ==
    /\ pc = "ready"
    /\ op' = "impact_impl"
    /\ result' = <<>>
    /\ dependencies' = <<>>
    /\ pc' = "loop"
    /\ idx' = 1
    /\ \E candidates \in CandidateLists : included_files' = candidates
    /\ printed' = <<>>
    /\ UNCHANGED << files, debug, modules_inclusion >>
    /\ UNCHANGED dfsVars
    /\ UNCHANGED pathVars
    /\ UNCHANGED workers
    /\ UNCHANGED useCaseVars

\* an insert that forgets what was in the set
insert_forgetting(seen, node) == {node}

\* line 204: visited.insert(current)
insert_visited(seen, node) == seen \cup {node}

\* get_sorted_impact_impl: for inc in &included_files, the call of dfs_tree
\* up to the first activation of dfs_recursive
DfsTree ==
    /\ pc = "loop"
    /\ idx <= Len(included_files)
    /\ LET inc == included_files[idx]
       IN  IF dfs_tree_panics(modules_inclusion)
           THEN /\ pc' = "panic"
                /\ UNCHANGED << idx, visited, visit_order, tree, stack >>
           ELSE IF ~starting_node_found(modules_inclusion, inc)
           THEN \* Err("Starting node not found"): printed, the loop goes on
                /\ idx' = after_error(idx, Len(included_files))
                /\ UNCHANGED << pc, visited, visit_order, tree, stack >>
           ELSE /\ pc' = "dfs"
                /\ visited' = insert_visited({}, inc)
                /\ visit_order' = << inc >>
                /\ tree' = EmptyMap
                /\ stack' = << Frame(inc, neighbors(modules_inclusion, inc)) >>
                /\ UNCHANGED idx
    /\ UNCHANGED << files, debug, modules_inclusion, op, included_files,
                    dependencies, result >>
    /\ UNCHANGED pathVars
    /\ UNCHANGED workers
    /\ UNCHANGED useCaseVars
    /\ UNCHANGED printed

\* the guard of the recursive call that lets every neighbor through
enter_always(neighbor, seen) == TRUE

\* line 213: if !visited.contains(neighbor)
enter_neighbor(neighbor, seen) == neighbor \notin seen

\* dfs_recursive: one turn of `for neighbor in neighbors`, with the entry of
\* the recursive call it makes
DfsVisit ==
    /\ pc = "dfs"
    /\ stack # <<>>
    /\ LET top == stack[Len(stack)]
       IN  /\ top.todo # {}
           /\ \E neighbor \in top.todo :
                  LET rest == [stack EXCEPT ![Len(stack)].todo = @ \ {neighbor}]
                  IN  IF enter_neighbor(neighbor, visited)
                      THEN /\ Len(stack) < MaxDepth
                           /\ visited' = insert_visited(visited, neighbor)
                           /\ visit_order' = Append(visit_order, neighbor)
                           /\ tree' = add_edge(tree, top.current, neighbor)
                           /\ stack' = Append(rest,
                                  Frame(neighbor, neighbors(modules_inclusion, neighbor)))
                      ELSE /\ stack' = rest
                           /\ UNCHANGED << visited, visit_order, tree >>
    /\ UNCHANGED << files, pc, debug, modules_inclusion, op, included_files, idx,
                    dependencies, result >>
    /\ UNCHANGED pathVars
    /\ UNCHANGED workers
    /\ UNCHANGED useCaseVars
    /\ UNCHANGED printed

\* dfs_recursive returns to its caller
DfsReturn ==
    /\ pc = "dfs"
    /\ stack # <<>>
    /\ stack[Len(stack)].todo = {}
    /\ stack' = SubSeq(stack, 1, Len(stack) - 1)
    /\ UNCHANGED << files, pc, debug, modules_inclusion, op, included_files, idx,
                    visited, visit_order, tree, dependencies, result >>
    /\ UNCHANGED pathVars
    /\ UNCHANGED workers
    /\ UNCHANGED useCaseVars
    /\ UNCHANGED printed

\* get_sorted_impact_impl: the Ok(tree) arm
PushEntry ==
    /\ pc = "dfs"
    /\ stack = <<>>
    /\ LET inc == included_files[idx]
       IN  /\ printed' = IF debug THEN printed \o print_tree(tree, inc, 0) ELSE printed
           /\ dependencies' = ok_arm(dependencies, files, visit_order, inc, debug)
    /\ idx' = idx + 1
    /\ pc' = "loop"
    \* the DFSTree and the visited set are dropped
    /\ visited' = {}
    /\ visit_order' = <<>>
    /\ tree' = EmptyMap
    /\ UNCHANGED << files, debug, modules_inclusion, op, included_files, stack, result >>
    /\ UNCHANGED pathVars
    /\ UNCHANGED workers
    /\ UNCHANGED useCaseVars

\* get_sorted_impact_impl: the sort after the loop, and the return
ReturnImpact ==
    /\ pc = "loop"
    /\ idx > Len(included_files)
    /\ result' = sort_dependencies(dependencies)
    /\ pc' = "ready"
    \* the locals of the call are dropped
    /\ included_files' = <<>>
    /\ idx' = 0
    /\ dependencies' = <<>>
    /\ UNCHANGED << files, debug, modules_inclusion, op >>
    /\ UNCHANGED dfsVars
    /\ UNCHANGED pathVars
    /\ UNCHANGED workers
    /\ UNCHANGED useCaseVars
    /\ UNCHANGED printed

\* the slice that keeps the last num elements
get_slice_from_end(slice, num) ==
    IF Len(slice) <= num THEN slice
    ELSE SubSeq(slice, Len(slice) - num + 1, Len(slice))

\* get_slice_up_to: Less | Equal => &slice[..], Greater => &slice[..num]
get_slice_up_to(slice, num) ==
    IF Len(slice) <= num THEN slice
    ELSE SubSeq(slice, 1, num)

\* TopNUseCase::make_output_data_from_slice: the map from file name to count
make_output_data_from_slice(dependency_entries) ==
    [ name \in { dependency_entries[i].file_name : i \in 1..Len(dependency_entries) } |->
        LET i == CHOOSE k \in 1..Len(dependency_entries) :
                     /\ dependency_entries[k].file_name = name
                     /\ \A l \in (k + 1)..Len(dependency_entries) :
                            dependency_entries[l].file_name # name
        IN  Cardinality(dependency_entries[i].including_files_paths) ]

\* the four rankings a use case calls
EntryPoints == {"inclusion", "inclusion_no_external", "impact", "impact_no_external"}

\* TopNUseCase::do_sorted_topn_*: what follows the return of the ranking.
\* config.output_size is read here only, so its value is drawn here.
TopN(num) ==
    /\ pc = "ready"
    /\ op \in EntryPoints
    /\ output_size' = num
    /\ topn' = get_slice_up_to(result, num)
    /\ output_data' = make_output_data_from_slice(get_slice_up_to(result, num))
    /\ pc' = "done"
    /\ UNCHANGED << files, debug, modules_inclusion, op, included_files, idx,
                    dependencies, result, printed >>
    /\ UNCHANGED dfsVars
    /\ UNCHANGED pathVars
    /\ UNCHANGED workers

Next ==
    \/ ScanFile
    \/ Make
    \/ GetSortedInclusion(FALSE)
    \/ GetSortedInclusion(TRUE)
    \/ GetSortedImpact(FALSE)
    \/ GetSortedImpact(TRUE)
    \/ DfsTree
    \/ DfsVisit
    \/ DfsReturn
    \/ PushEntry
    \/ ReturnImpact
    \/ \E num \in 0..MaxNum : TopN(num)

Spec == Init /\ [][Next]_vars

\* A call, once made, runs to its end: the program is one thread and no step
\* of a ranking waits for anything.
FairSpec ==
    /\ Spec
    /\ WF_vars(DfsTree)
    /\ WF_vars(DfsVisit)
    /\ WF_vars(DfsReturn)
    /\ WF_vars(PushEntry)
    /\ WF_vars(ReturnImpact)

\* get_sorted_impact_impl on candidate lists that need not come from the map
NextImpl ==
    \/ ScanFile
    \/ Make
    \/ GetSortedImpactImpl
    \/ DfsTree
    \/ DfsVisit
    \/ DfsReturn
    \/ PushEntry
    \/ ReturnImpact

SpecImpl == Init /\ [][NextImpl]_vars

\* the entry points together with get_sorted_impact_impl called on its own
NextEntry ==
    \/ Next
    \/ GetSortedImpactImpl

SpecEntry == Init /\ [][NextEntry]_vars

-----------------------------------------------------------------------------
(* dfs_tree called for several candidates side by side: every call takes
   &self, reads self.modules_inclusion and writes its own locals only *)

\* the locals of one call of dfs_tree before it has run
Worker(start_node) ==
    [ start_node |-> start_node, status |-> "new", visited |-> {},
      visit_order |-> <<>>, tree |-> EmptyMap, stack |-> <<>>, paths |-> {} ]

\* one call of dfs_tree for each candidate of a set of the caller's choice
SpawnWorkers ==
    /\ pc = "ready"
    /\ \E candidates \in SUBSET CandidateNames :
           /\ Cardinality(candidates) <= MaxWorkers
           /\ workers' = [ inc \in candidates |-> Worker(inc) ]
    /\ pc' = "workers"
    /\ op' = "impact_workers"
    /\ result' = <<>>
    /\ printed' = <<>>
    /\ UNCHANGED << files, debug, modules_inclusion, included_files, idx, dependencies >>
    /\ UNCHANGED dfsVars
    /\ UNCHANGED pathVars
    /\ UNCHANGED useCaseVars

\* a visited-set that all the calls share
shared_visited(ws, w) == UNION { ws[v].visited : v \in DOMAIN ws }

\* lines 194-201: visited is a local of dfs_tree, lent to dfs_recursive
local_visited(ws, w) == ws[w].visited

\* what a step of one call leaves alone: everything but that call's locals
WorkerFrame ==
    /\ UNCHANGED << files, pc, debug, modules_inclusion, op, included_files, idx,
                    dependencies, result, printed >>
    /\ UNCHANGED dfsVars
    /\ UNCHANGED pathVars
    /\ UNCHANGED useCaseVars

\* dfs_tree up to the first activation of dfs_recursive
WorkerDfsTree(w) ==
    /\ pc = "workers"
    /\ workers[w].status = "new"
    /\ LET inc == workers[w].start_node
       IN  workers' =
               IF dfs_tree_panics(modules_inclusion)
               THEN [workers EXCEPT ![w].status = "panic"]
               ELSE IF ~starting_node_found(modules_inclusion, inc)
               THEN [workers EXCEPT ![w].status = "error"]
               ELSE [workers EXCEPT
                        ![w].status = "dfs",
                        ![w].visited = insert_visited({}, inc),
                        ![w].visit_order = << inc >>,
                        ![w].tree = EmptyMap,
                        ![w].stack = << Frame(inc, neighbors(modules_inclusion, inc)) >>]
    /\ WorkerFrame

\* dfs_recursive: one turn of `for neighbor in neighbors` in one call
WorkerDfsVisit(w) ==
    /\ pc = "workers"
    /\ workers[w].status = "dfs"
    /\ workers[w].stack # <<>>
    /\ LET me == workers[w]
           top == me.stack[Len(me.stack)]
       IN  /\ top.todo # {}
           /\ \E neighbor \in top.todo :
                  LET rest == [me.stack EXCEPT ![Len(me.stack)].todo = @ \ {neighbor}]
                  IN  IF enter_neighbor(neighbor, local_visited(workers, w))
                      THEN /\ Len(me.stack) < MaxDepth
                           /\ workers' = [workers EXCEPT
                                  ![w].visited = insert_visited(me.visited, neighbor),
                                  ![w].visit_order = Append(me.visit_order, neighbor),
                                  ![w].tree = add_edge(me.tree, top.current, neighbor),
                                  ![w].stack = Append(rest,
                                      Frame(neighbor, neighbors(modules_inclusion, neighbor)))]
                      ELSE workers' = [workers EXCEPT ![w].stack = rest]
    /\ WorkerFrame

\* dfs_recursive returns to its caller in one call
WorkerDfsReturn(w) ==
    /\ pc = "workers"
    /\ workers[w].status = "dfs"
    /\ workers[w].stack # <<>>
    /\ workers[w].stack[Len(workers[w].stack)].todo = {}
    /\ workers' = [workers EXCEPT ![w].stack = SubSeq(@, 1, Len(@) - 1)]
    /\ WorkerFrame

\* dfs_tree has returned Ok(tree): the impacted-set of lines 155-164
WorkerDone(w) ==
    /\ pc = "workers"
    /\ workers[w].status = "dfs"
    /\ workers[w].stack = <<>>
    /\ workers' = [workers EXCEPT
           ![w].status = "done",
           ![w].paths = filtered_paths(files, workers[w].visit_order,
                                       workers[w].start_node)]
    /\ WorkerFrame

NextWorkers ==
    \/ ScanFile
    \/ Make
    \/ GetSortedImpactImpl
    \/ DfsTree
    \/ DfsVisit
    \/ DfsReturn
    \/ PushEntry
    \/ ReturnImpact
    \/ SpawnWorkers
    \/ \E w \in DOMAIN workers : WorkerDfsTree(w)
    \/ \E w \in DOMAIN workers : WorkerDfsVisit(w)
    \/ \E w \in DOMAIN workers : WorkerDfsReturn(w)
    \/ \E w \in DOMAIN workers : WorkerDone(w)

SpecWorkers == Init /\ [][NextWorkers]_vars

-----------------------------------------------------------------------------
(* The sample files of the unit tests *)

main_cpp == << "m", "a", "i", "n", ".", "c", "p", "p" >>
iostream == << "i", "o", "s", "t", "r", "e", "a", "m" >>
foobar_h == << "f", "o", "o", "b", "a", "r", ".", "h" >>
blablah_h == << "b", "l", "a", "b", "l", "a", "h", ".", "h" >>
leviathan_h == << "l", "e", "v", "i", "a", "t", "h", "a", "n", ".", "h" >>

\* tests::create_sample_files
create_sample_files ==
    << File(main_cpp, << iostream, foobar_h >>),
       File(foobar_h, << blablah_h >>),
       File(leviathan_h, << foobar_h >>),
       File(blablah_h, << >>) >>

\* the next sample file is made and pushed
ScanSampleFile ==
    /\ pc = "scan"
    /\ Len(files) < Len(create_sample_files)
    /\ files' = Append(files, create_sample_files[Len(files) + 1])
    /\ UNCHANGED << pc, debug, modules_inclusion, op, included_files, idx,
                    dependencies, result, printed >>
    /\ UNCHANGED dfsVars
    /\ UNCHANGED pathVars
    /\ UNCHANGED workers
    /\ UNCHANGED useCaseVars

\* the analyzer made of the sample files, all four of them
MakeSample ==
    /\ Len(files) = Len(create_sample_files)
    /\ Make

NextSample ==
    \/ ScanSampleFile
    \/ MakeSample
    \/ GetSortedInclusion(FALSE)
    \/ GetSortedInclusion(TRUE)
    \/ GetSortedImpact(FALSE)
    \/ GetSortedImpact(TRUE)
    \/ DfsTree
    \/ DfsVisit
    \/ DfsReturn
    \/ PushEntry
    \/ ReturnImpact

SpecSample == Init /\ [][NextSample]_vars

-----------------------------------------------------------------------------
(* extract_filename_from_path on its own, on every string up to MaxLen *)

InitPath ==
    /\ files = <<>>
    /\ pc = "path"
    /\ debug = FALSE
    /\ modules_inclusion = EmptyMap
    /\ op = "none"
    /\ included_files = <<>>
    /\ idx = 0
    /\ visited = {}
    /\ visit_order = <<>>
    /\ tree = EmptyMap
    /\ stack = <<>>
    /\ dependencies = <<>>
    /\ result = <<>>
    /\ path_arg \in StringsUpTo(MaxLen)
    /\ path_out = <<>>
    /\ printed = <<>>
    /\ output_size = 0
    /\ topn = <<>>
    /\ output_data = EmptyMap
    /\ workers = <<>>

\* extract_filename_from_path applied to the argument, then to its own result
ExtractFilename ==
    /\ pc = "path"
    /\ Len(path_out) < 2
    /\ path_out' = Append(path_out, extract_filename_from_path(
                        IF path_out = <<>> THEN path_arg ELSE path_out[Len(path_out)]))
    /\ UNCHANGED << files, pc, debug, modules_inclusion, op, included_files, idx,
                    dependencies, result, path_arg, printed, workers >>
    /\ UNCHANGED dfsVars
    /\ UNCHANGED useCaseVars

NextPath == ExtractFilename

SpecPath == InitPath /\ [][NextPath]_vars

-----------------------------------------------------------------------------
(* Vocabulary of the properties *)

Keys == DOMAIN modules_inclusion

ImpactReturned == pc = "ready" /\ op \in {"impact", "impact_no_external"}

NoExternalReturned ==
    pc = "ready" /\ op \in {"inclusion_no_external", "impact_no_external"}

GraphBuilt == pc = "ready" /\ op = "none"

EntryNames == { result[i].file_name : i \in 1..Len(result) }

\* the count get_sorted_inclusion reports for a node
InclusionCount(node) ==
    Cardinality(get_sorted_inclusion_impl(modules_inclusion, << node >>)[1].including_files_paths)

\* the units (by position in the scan) that list a reference with canonical name node
Referrers(node) ==
    { i \in 1..Len(files) :
        \E j \in 1..Len(files[i].used_modules) :
            extract_filename_from_path(files[i].used_modules[j]) = node }

-----------------------------------------------------------------------------
(* C1 *)

\* C1 as stated: for every entry of an impact ranking whose node is a scanned
\* file, the impact count is at least the node's direct-inclusion count.
C1_ImpactAtLeastInclusion ==
    ImpactReturned =>
        \A i \in 1..Len(result) :
            result[i].file_name \in file_names(files) =>
                Cardinality(result[i].including_files_paths)
                    >= InclusionCount(result[i].file_name)

\* C1 amended: every direct includer of a node other than the node itself is
\* in the node's impacted-set, so the impact count is at least the
\* direct-inclusion count not counting the node's own name.
C1_ImpactCoversOtherIncluders ==
    ImpactReturned =>
        \A i \in 1..Len(result) :
            LET node == result[i].file_name
            IN  /\ modules_inclusion[node] \ {node} \subseteq result[i].including_files_paths
                /\ Cardinality(result[i].including_files_paths)
                       >= Cardinality(modules_inclusion[node] \ {node})

\* an impact ranking with a node that is a scanned file, lists itself among
\* its includers and has another includer too
C1_Witness ==
    /\ ImpactReturned
    /\ \E i \in 1..Len(result) :
           LET node == result[i].file_name
           IN  /\ node \in file_names(files)
               /\ node \in modules_inclusion[node]
               /\ modules_inclusion[node] # {node}
               /\ result[i].including_files_paths # {}

-----------------------------------------------------------------------------
(* C2 *)

RECURSIVE canonical_closure(_, _)
canonical_closure(m, reached) ==
    LET next == reached \cup
                UNION { neighbors(m, extract_filename_from_path(p)) : p \in reached }
    IN  IF next = reached THEN reached ELSE canonical_closure(m, next)

\* the identities reached from node by taking including-sets of canonical names
CanonicalReach(node) == canonical_closure(modules_inclusion, neighbors(modules_inclusion, node))

\* C2 as stated: the impacted-set of every entry is the set of scanned
\* identities reached from the node through canonicalized paths (the start
\* node's own name left out, as the ranking leaves it out).
C2_TraversalFollowsCanonicalNames ==
    ImpactReturned =>
        \A i \in 1..Len(result) :
            result[i].including_files_paths
                = CanonicalReach(result[i].file_name) \ {result[i].file_name}

-----------------------------------------------------------------------------
(* C3 *)

\* C3 as stated: the external-filtered rankings have an entry for exactly the
\* canonical names of the scanned units.
C3_FilterKeepsCanonicalNames ==
    NoExternalReturned =>
        EntryNames = { extract_filename_from_path(n) : n \in file_names(files) }

-----------------------------------------------------------------------------
(* C4 *)

-----------------------------------------------------------------------------
(* C5 *)

\* C5 as stated: the size of a node's including-set is the number of scanned
\* units that list the node, each unit counted once, units of the same file
\* name counted separately.
C5_InclusionCountsUnits ==
    pc # "scan" =>
        \A node \in Keys :
            Cardinality(modules_inclusion[node]) = Cardinality(Referrers(node))

-----------------------------------------------------------------------------
(* C6 *)

\* C6: after make, the canonical name of every unit is a key of the map, with
\* an empty including-set when no unit references it.
C6_EveryUnitIsAKey ==
    pc # "scan" =>
        \A i \in 1..Len(files) :
            LET node == extract_filename_from_path(files[i].name)
            IN  /\ node \in Keys
                /\ Referrers(node) = {} => modules_inclusion[node] = {}

\* a built graph with a unit whose identity is not its canonical name and
\* that nobody references
C6_Witness ==
    /\ GraphBuilt
    /\ \E i \in 1..Len(files) :
           LET node == extract_filename_from_path(files[i].name)
           IN  /\ node # files[i].name
               /\ node \in Keys
               /\ Referrers(node) = {}

-----------------------------------------------------------------------------
(* C7 *)

\* C7: p is in the including-set of n exactly when p is the identity of a
\* scanned unit that lists a reference with canonical name n; every such n is
\* a key.
C7_EdgesAreReferences ==
    pc # "scan" =>
        /\ \A node \in Keys :
               modules_inclusion[node] = { files[i].name : i \in Referrers(node) }
        /\ \A i \in 1..Len(files) : file_dependencies(files[i]) \subseteq Keys

\* a built graph with a node that two units of different identities reference
C7_Witness ==
    /\ GraphBuilt
    /\ \E node \in Keys : Cardinality(modules_inclusion[node]) >= 2

-----------------------------------------------------------------------------
(* C8 *)

Permuted(fs, order) == [i \in 1..Len(fs) |-> fs[order[i]]]

\* C8: make gives the same map for every permutation of the units.
C8_MakeIgnoresOrder ==
    GraphBuilt =>
        \A order \in Orders(1..Len(files)) :
            make(Permuted(files, order)) = modules_inclusion

\* a built graph of two different units, the first referenced by the second
C8_Witness ==
    /\ GraphBuilt
    /\ Len(files) >= 2
    /\ files[1] # files[2]
    /\ extract_filename_from_path(files[1].name) \in file_dependencies(files[2])
    /\ modules_inclusion[extract_filename_from_path(files[1].name)] # {}

-----------------------------------------------------------------------------
(* C9 *)

HasSlash(p) == \E i \in 1..Len(p) : p[i] = "/"

AfterLastSlash(p) ==
    LET slashes == { i \in 1..Len(p) : p[i] = "/" }
        last == IF slashes = {} THEN 0
                ELSE CHOOSE i \in slashes : \A j \in slashes : j <= i
    IN  [k \in 1..(Len(p) - last) |-> p[last + k]]

\* C9: extract_filename_from_path returns what follows the last '/', the whole
\* argument when there is no '/', and applied to its own result returns it
\* unchanged.
C9_CanonicalName ==
    /\ Len(path_out) >= 1 =>
           /\ path_out[1] = AfterLastSlash(path_arg)
           /\ ~HasSlash(path_arg) => path_out[1] = path_arg
    /\ Len(path_out) >= 2 => path_out[2] = path_out[1]

\* a path with a directory and a backslash in its last segment, canonicalized twice
C9_Witness ==
    /\ Len(path_out) = 2
    /\ HasSlash(path_arg)
    /\ path_out[1] # path_arg
    /\ \E i \in 1..Len(path_out[1]) : path_out[1][i] = "\\"

-----------------------------------------------------------------------------
(* C10 *)

TwoNodeCycle(A, B) ==
    /\ A # B
    /\ modules_inclusion[A] = {B}
    /\ modules_inclusion[B] = {A}

\* C10: a traversal that has started ends, and on a two-node cycle A<->B the
\* impacted-set of A is {B}.
C10_TraversalTerminates ==
    /\ (pc = "dfs") ~> (pc = "loop")
    /\ [](ImpactReturned =>
            \A i \in 1..Len(result) : \A B \in Keys :
                TwoNodeCycle(result[i].file_name, B) =>
                    result[i].including_files_paths = {B})

\* an impact ranking returned for a graph with a two-node cycle
C10_Witness ==
    /\ ImpactReturned
    /\ \E i \in 1..Len(result) : \E B \in Keys :
           /\ TwoNodeCycle(result[i].file_name, B)
           /\ result[i].including_files_paths = {B}

\* the call stack never fills up: MaxDepth holds no traversal back
StackBelowMaxDepth == Len(stack) < MaxDepth

-----------------------------------------------------------------------------
(* C11 *)

\* C11 as stated: no impacted-set of an impact ranking contains the unit its
\* node stands for, that is a unit whose canonical name is the node.
C11_ImpactExcludesOwnUnit ==
    ImpactReturned =>
        \A i \in 1..Len(result) :
            \A p \in result[i].including_files_paths :
                extract_filename_from_path(p) # result[i].file_name

-----------------------------------------------------------------------------
(* C12 *)

RECURSIVE identity_closure(_, _)
identity_closure(m, reached) ==
    LET next == reached \cup UNION { neighbors(m, p) : p \in reached }
    IN  IF next = reached THEN reached ELSE identity_closure(m, next)

\* the impacted-set a candidate gets when it is the only candidate: the
\* scanned units reached from it by taking including-sets, the start left out
ImpactAlone(node) ==
    { v \in identity_closure(modules_inclusion, {node}) :
        v # node /\ v \in file_names(files) }

LoopDone == pc = "loop" /\ idx > Len(included_files)

IsKey(name) == name \in Keys

\* the entries are those of the candidates that are keys, in the candidates'
\* order, each with the impacted-set it has alone
EntriesOfKeyCandidates ==
    /\ [i \in 1..Len(dependencies) |-> dependencies[i].file_name]
           = SelectSeq(included_files, IsKey)
    /\ \A i \in 1..Len(dependencies) :
           dependencies[i].including_files_paths = ImpactAlone(dependencies[i].file_name)

\* C12 as stated: a candidate that is not a key is reported and left out, it
\* never ends the batch, and the other candidates get the entries they would
\* have had alone.
C12_MissingCandidateIsSkipped ==
    op = "impact_impl" =>
        /\ pc # "panic"
        /\ LoopDone => EntriesOfKeyCandidates

\* C12 amended: the same, on a graph that has at least one key; on a graph
\* with no key the first candidate ends the batch in the assert of dfs_tree.
C12_MissingCandidateIsSkippedOnNonEmptyGraph ==
    op = "impact_impl" =>
        /\ pc = "panic" => Keys = {}
        /\ LoopDone => EntriesOfKeyCandidates

\* a finished loop whose candidate list had a name that is no key ahead of a
\* key with a non-empty impacted-set
C12_Witness ==
    /\ op = "impact_impl"
    /\ LoopDone
    /\ \E i, j \in 1..Len(included_files) :
           /\ i < j
           /\ included_files[i] \notin Keys
           /\ included_files[j] \in Keys
    /\ \E k \in 1..Len(dependencies) : dependencies[k].including_files_paths # {}

-----------------------------------------------------------------------------
(* C13 *)


\* C13: on a graph with no key every ranking entry point ends in the failed
\* assert and returns nothing; a graph with a key never fails; an empty list
\* is returned only by an external-filtered ranking of a graph with keys, none
\* of which is the identity of a scanned unit.
C13_EmptyGraphFails ==
    /\ (op \in EntryPoints /\ Keys = {}) => pc = "panic"
    /\ pc = "panic" => Keys = {}
    /\ (op \in EntryPoints /\ pc = "ready" /\ result = <<>>) =>
           /\ Keys # {}
           /\ op \in {"inclusion_no_external", "impact_no_external"}
           /\ Keys \cap file_names(files) = {}

\* the external-filtered impact ranking called on the graph of an empty scan
C13_Witness ==
    /\ pc = "panic"
    /\ op = "impact_no_external"
    /\ files = <<>>
    /\ Keys = {}

\* an empty list returned for a graph with keys
C13_EmptyListReturned ==
    /\ pc = "ready"
    /\ op \in {"inclusion_no_external", "impact_no_external"}
    /\ result = <<>>
    /\ Keys # {}

-----------------------------------------------------------------------------
(* C14 *)

Returned == pc = "ready" /\ op \in EntryPoints

EntryCount(i) == Cardinality(result[i].including_files_paths)

\* C14: in the list every ranking returns no entry is followed by one with a
\* larger set, and the rankings that are not filtered have exactly one entry
\* for every key of the graph.
C14_RankingIsSortedAndComplete ==
    Returned =>
        /\ \A i \in 1..(Len(result) - 1) : EntryCount(i) >= EntryCount(i + 1)
        /\ op \in {"inclusion", "impact"} =>
               /\ EntryNames = Keys
               /\ Len(result) = Cardinality(Keys)

\* an impact ranking of two entries with different counts
C14_Witness ==
    /\ Returned
    /\ op = "impact"
    /\ Len(result) = 2
    /\ EntryCount(1) > EntryCount(2)

-----------------------------------------------------------------------------
(* C15 *)

\* the list an entry point returns when the map enumerates its keys as keys
RankingFor(entry_point, keys) ==
    LET candidates ==
            IF entry_point \in {"inclusion_no_external", "impact_no_external"}
            THEN filter_outside_inclusions(files, keys)
            ELSE keys
    IN  IF entry_point \in {"inclusion", "inclusion_no_external"}
        THEN get_sorted_inclusion_impl(modules_inclusion, candidates)
        ELSE sort_dependencies(
                 [i \in 1..Len(candidates) |->
                     DependencyEntry(candidates[i], ImpactAlone(candidates[i]))])

\* C15 as stated: the list a ranking returns is the one it returns for every
\* order in which the map can enumerate its keys, so two runs on the same
\* units give the same sequence.
C15_RankingIsReproducible ==
    Returned =>
        \A keys \in Orders(Keys) : result = RankingFor(op, keys)

-----------------------------------------------------------------------------
(* C16 *)

\* the count of the entry of a node in the returned ranking
CountOf(node) ==
    LET i == CHOOSE k \in 1..Len(result) : result[k].file_name = node
    IN  EntryCount(i)

Counts(c_foobar, c_iostream, c_blablah, c_main, c_leviathan) ==
    /\ EntryNames = {foobar_h, iostream, blablah_h, main_cpp, leviathan_h}
    /\ Len(result) = 5
    /\ CountOf(foobar_h) = c_foobar
    /\ CountOf(iostream) = c_iostream
    /\ CountOf(blablah_h) = c_blablah
    /\ CountOf(main_cpp) = c_main
    /\ CountOf(leviathan_h) = c_leviathan

\* C16: the four sample files give a graph of 5 nodes, direct-inclusion counts
\* foobar.h 2, iostream 1, blablah.h 1, main.cpp 0, leviathan.h 0 and
\* unfiltered impact counts foobar.h 2, iostream 1, blablah.h 3, main.cpp 0,
\* leviathan.h 0.
C16_SampleCounts ==
    (files = create_sample_files /\ pc = "ready") =>
        /\ Cardinality(Keys) = 5
        /\ op = "inclusion" => Counts(2, 1, 1, 0, 0)
        /\ op = "impact" => Counts(2, 1, 3, 0, 0)

\* the impact ranking of the four sample files, blablah.h first
C16_Witness ==
    /\ files = create_sample_files
    /\ pc = "ready"
    /\ op = "impact"
    /\ Len(result) = 5
    /\ result[1].file_name = blablah_h
    /\ result[1].including_files_paths = {foobar_h, main_cpp, leviathan_h}

-----------------------------------------------------------------------------
(* C17 *)

\* C17: whether the analyzer was built with debug true or false, the impact
\* rankings return the entries and impacted-sets that the units and the
\* enumeration order of the map determine; printing the tree changes nothing
\* in them.
C17_DebugDoesNotChangeImpact ==
    ImpactReturned =>
        \E keys \in Orders(Keys) : result = RankingFor(op, keys)

\* an impact ranking returned in debug mode after a tree of two levels was
\* printed, with a non-empty impacted-set in it
C17_Witness ==
    /\ ImpactReturned
    /\ debug
    /\ \E i \in 1..Len(printed) : printed[i].indent = 1
    /\ \E i \in 1..Len(result) : result[i].including_files_paths # {}

-----------------------------------------------------------------------------
(* C18 *)

Min(x, y) == IF x <= y THEN x ELSE y

UseCaseDone == pc = "done"

\* C18: the slice a use case keeps is the first min(n, len) entries of the
\* ranking in their order, the whole ranking when n >= len, and the output
\* built from it omits no entry whose count is strictly greater than the
\* count of an entry it includes.
C18_TopNKeepsLargestCounts ==
    UseCaseDone =>
        /\ Len(topn) = Min(output_size, Len(result))
        /\ \A i \in 1..Len(topn) : topn[i] = result[i]
        /\ output_size >= Len(result) => topn = result
        /\ DOMAIN output_data = { topn[i].file_name : i \in 1..Len(topn) }
        /\ \A i \in 1..Len(result) :
               result[i].file_name \notin DOMAIN output_data =>
                   \A name \in DOMAIN output_data :
                       EntryCount(i) <= output_data[name]

\* a use case that kept one entry of two, the omitted one with a smaller count
C18_Witness ==
    /\ UseCaseDone
    /\ output_size = 1
    /\ Len(result) = 2
    /\ Len(topn) = 1
    /\ EntryCount(2) < EntryCount(1)
    /\ output_data[topn[1].file_name] = EntryCount(1)

-----------------------------------------------------------------------------
(* C19 *)

InTraversal == pc = "dfs"

\* the visit order holds the members of the visited-set, each of them once
VisitOrderIsVisited ==
    /\ Range(visit_order) = visited
    /\ Len(visit_order) = Cardinality(visited)

\* a step inside one traversal keeps every visited node visited, keeps the
\* visit order as a prefix, and enters only a node that was not visited
TraversalStep ==
    (InTraversal /\ InTraversal') =>
        /\ visited \subseteq visited'
        /\ Len(visit_order) <= Len(visit_order')
        /\ SubSeq(visit_order', 1, Len(visit_order)) = visit_order
        /\ Len(stack') > Len(stack) =>
               /\ stack'[Len(stack')].current \notin visited
               /\ visited' = visited \cup {stack'[Len(stack')].current}

\* C19: during one traversal the visited-set only grows, a visited node is
\* never entered a second time even when a second route reaches it, and at
\* every step the visit order holds exactly the members of the visited-set,
\* each of them once.
C19_VisitedOnlyGrows ==
    /\ [](InTraversal => VisitOrderIsVisited)
    /\ [][TraversalStep]_vars

\* a traversal that has visited two nodes and meets one of them again on a
\* second route
C19_Witness ==
    /\ InTraversal
    /\ Cardinality(visited) >= 2
    /\ stack # <<>>
    /\ \E neighbor \in stack[Len(stack)].todo : neighbor \in visited

-----------------------------------------------------------------------------
(* C20 *)

\* between two traversals of the loop no visited-set or visit order is left
StartsEmpty ==
    /\ pc = "loop" => (visited = {} /\ visit_order = <<>> /\ tree = EmptyMap)
    /\ \A w \in DOMAIN workers :
           workers[w].status = "new" =>
               (workers[w].visited = {} /\ workers[w].visit_order = <<>>)

\* every impacted-set computed so far is the one its candidate gets alone
SetsAreThoseOfTheCandidateAlone ==
    /\ \A i \in 1..Len(dependencies) :
           dependencies[i].including_files_paths = ImpactAlone(dependencies[i].file_name)
    /\ (pc = "ready" /\ op = "impact_impl") =>
           \A i \in 1..Len(result) :
               result[i].including_files_paths = ImpactAlone(result[i].file_name)
    /\ \A w \in DOMAIN workers :
           workers[w].status = "done" => workers[w].paths = ImpactAlone(w)

\* once the graph is built no step changes it or the units it was built from
GraphIsReadOnly ==
    pc # "scan" => (modules_inclusion' = modules_inclusion /\ files' = files)

\* C20: every per-candidate traversal starts with an empty visited-set and
\* visit order, no ranking or impact operation modifies the graph, and the
\* impacted-set computed for a candidate is the one it gets alone, whichever
\* other candidates are processed, in whatever order, and however the
\* traversals run as separate workers interleave.
C20_TraversalsAreIndependent ==
    /\ [](StartsEmpty /\ SetsAreThoseOfTheCandidateAlone)
    /\ [][GraphIsReadOnly]_vars

\* two workers in the middle of their traversals at the same time, each having
\* entered the start of the other
C20_Witness ==
    /\ pc = "workers"
    /\ \E v, w \in DOMAIN workers :
           /\ v # w
           /\ workers[v].status = "dfs"
           /\ workers[w].status = "dfs"
           /\ workers[v].stack # <<>>
           /\ workers[w].stack # <<>>
           /\ w \in workers[v].visited
           /\ v \in workers[w].visited

-----------------------------------------------------------------------------
(* C21 *)

PublicImpact == op \in {"impact", "impact_no_external"}

\* the number of candidates a public impact ranking hands to the loop
CandidateCount ==
    IF op = "impact_no_external"
    THEN Cardinality(Keys \cap file_names(files))
    ELSE Cardinality(Keys)

\* a turn of the loop that went through the Err arm: the loop moves on to the
\* next candidate without a traversal
ErrorArmTaken == pc = "loop" /\ pc' = "loop" /\ idx' # idx

\* C21: through get_sorted_impact and get_sorted_impact_no_external the
\* "Starting node not found" arm is never taken: every candidate handed to
\* the traversal is a key of the graph, and on a non-empty graph the ranking
\* has as many entries as there were candidates.
C21_PublicImpactNeverMissesStart ==
    /\ []((PublicImpact /\ pc \in {"loop", "dfs"}) =>
              /\ Range(included_files) \subseteq Keys
              /\ Len(included_files) = CandidateCount)
    /\ []((PublicImpact /\ pc = "ready" /\ Keys # {}) =>
              Len(result) = CandidateCount)
    /\ [][PublicImpact => ~ErrorArmTaken]_vars

\* a filtered impact ranking on a graph with a key outside the scanned units:
\* one candidate, one entry
C21_Witness ==
    /\ PublicImpact
    /\ pc = "ready"
    /\ op = "impact_no_external"
    /\ Cardinality(Keys) = 2
    /\ Len(result) = 1

-----------------------------------------------------------------------------
(* C22 *)

\* the node the traversal in progress started from
StartNode == included_files[idx]

\* the places where node is recorded as a child: << parent, position >>
ChildSlots(node) ==
    { ps \in UNION { {p} \X (1..Len(tree[p])) : p \in DOMAIN tree } :
        tree[ps[1]][ps[2]] = node }

\* the parents of the nodes of a set
ParentsOf(nodes) == { p \in DOMAIN tree : \E n \in nodes : ChildSlots(n) \cap ({p} \X (1..Len(tree[p]))) # {} }

\* the ancestors of a node: its parents, their parents, and so on
RECURSIVE AncestorsFrom(_)
AncestorsFrom(nodes) ==
    LET more == nodes \cup ParentsOf(nodes)
    IN  IF more = nodes THEN nodes ELSE AncestorsFrom(more)

Ancestors(node) == AncestorsFrom(ParentsOf({node}))

\* the recorded structure is a tree rooted at the start node
IsTreeRootedAtStart ==
    /\ DOMAIN tree \subseteq visited
    /\ ChildSlots(StartNode) = {}
    /\ \A node \in visited \ {StartNode} : Cardinality(ChildSlots(node)) = 1
    /\ \A node \in visited : node \notin Ancestors(node)
    /\ \A node \in visited \ {StartNode} : StartNode \in Ancestors(node)

\* print_tree from the start node prints the visited nodes, each once, in the
\* order of the visit
PrintsEveryVisitedNodeOnce ==
    LET lines == print_tree(tree, StartNode, 0)
    IN  /\ Len(lines) = Cardinality(visited)
        /\ { lines[i].node : i \in 1..Len(lines) } = visited
        /\ [i \in 1..Len(lines) |-> lines[i].node] = visit_order

\* the step of the Ok arm in debug mode adds one line for every visited node
DebugPrintStep ==
    (InTraversal /\ pc' = "loop" /\ debug) =>
        Len(printed') = Len(printed) + Cardinality(visited)

\* C22: at every step of a traversal the parent-to-children structure is a
\* tree rooted at the start node: the start node has no parent, every other
\* visited node is a child exactly once and no node is its own ancestor; so
\* the recursive debug print ends and prints every visited node exactly once,
\* also when the graph has a cycle.
C22_RecordedStructureIsATree ==
    /\ [](InTraversal => (IsTreeRootedAtStart /\ PrintsEveryVisitedNodeOnce))
    /\ [][DebugPrintStep]_vars

\* a finished traversal, in debug mode, of a graph in which the second node
\* visited leads back to the start node
C22_Witness ==
    /\ InTraversal
    /\ debug
    /\ stack = <<>>
    /\ Cardinality(visited) >= 2
    /\ \E node \in visited \ {StartNode} :
           StartNode \in neighbors(modules_inclusion, node)

====
